---- MODULE Spec2Model ----
(***************************************************************************)
(* go-licenser: run / walk / addOrCheckLicense of main.go as a state       *)
(* machine.  Strings are sequences of one-character strings, so that       *)
(* strings.TrimLeft, filepath.Ext and filepath.Join act on characters.     *)
(* Header lines and file contents are sequences of tokens ("\n" ends a     *)
(* line, "%s" is the fmt verb of a header template).                       *)
(***************************************************************************)
EXTENDS Integers, Sequences, FiniteSets, TLC

VARIABLES Headers, fs, faults, pc, runs, cfg, headerBytes, frames, err, out,
          opened, rewritten, enumerated, stats, handed, fs0, repeat, failed

vars == <<Headers, fs, faults, pc, runs, cfg, headerBytes, frames, err, out,
          opened, rewritten, enumerated, stats, handed, fs0, repeat, failed>>

\* number of calls of run in one process
MaxRuns == 2

(***************************************************************************)
(* Strings                                                                 *)
(***************************************************************************)
Range(s) == {s[i] : i \in DOMAIN s}

Sep == "/"

RECURSIVE TrimLeft(_, _)
\* strings.TrimLeft(s, cutset): drops every leading character contained in cutset
TrimLeft(s, cutset) ==
  IF s # <<>> /\ Head(s) \in Range(cutset) THEN TrimLeft(Tail(s), cutset) ELSE s

HasPrefix(s, prefix) ==
  Len(prefix) <= Len(s) /\ SubSeq(s, 1, Len(prefix)) = prefix

RECURSIVE TrimRightSep(_)
TrimRightSep(s) ==
  IF s # <<>> /\ s[Len(s)] = Sep THEN TrimRightSep(SubSeq(s, 1, Len(s) - 1)) ELSE s

\* filepath.Join(dir, name) as WalkDir builds the path of a directory entry
Join(dir, name) ==
  IF dir = <<".">> THEN name ELSE TrimRightSep(dir) \o <<Sep>> \o name

RECURSIVE ExtFrom(_, _)
ExtFrom(path, i) ==
  IF i = 0 \/ path[i] = Sep THEN <<>>
  ELSE IF path[i] = "." THEN SubSeq(path, i, Len(path))
  ELSE ExtFrom(path, i - 1)

\* filepath.Ext(path)
Ext(path) == ExtFrom(path, Len(path))

RECURSIVE Flatten(_)
Flatten(ss) == IF ss = <<>> THEN <<>> ELSE Head(ss) \o Flatten(Tail(ss))

(***************************************************************************)
(* Constants of main.go                                                    *)
(***************************************************************************)
defaultExt == <<".", "g", "o">>
defaultPath == <<".">>
defaultLicense == "ASL2"
defaultLicensor == "E"

exitDefault == 0
exitSourceNeedsToBeRewritten == 1
exitFailedToStatTree == 2
exitFailedToStatFile == 3
exitFailedToWalkPath == 4
exitFailedToOpenWalkFile == 5
errFailedRewrittingFile == 6
errUnknownLicense == 7

defaultExludedDirs == << <<"v", "e", "n", "d", "o", "r">>, <<".", "g", "i", "t">> >>

(***************************************************************************)
(* The file system the tool runs on: a fixed tree below the working        *)
(* directory.  A node is the sequence of its path segments.                *)
(***************************************************************************)
n_git == <<".", "g", "i", "t">>
n_vendor == <<"v", "e", "n", "d", "o", "r">>
n_a == <<"a", ".", "g", "o">>
n_b == <<"b", ".", "g", "o">>
n_c == <<"c", ".", "g", "o">>
n_h == <<"h", ".", "g", "o">>
n_v == <<"v", ".", "g", "o">>
n_m == <<"m", ".", "m", "d">>
n_d == <<"d">>
n_dd == <<"d", "d">>

\* os.ReadDir: the entries of each directory, sorted by name
Listing ==
  ( <<>> :> <<n_git, n_a, n_b, n_d, n_m>> ) @@
  ( <<n_git>> :> <<n_h>> ) @@
  ( <<n_d>> :> <<n_a, n_dd, n_vendor>> ) @@
  ( <<n_d, n_dd>> :> <<n_c>> ) @@
  ( <<n_d, n_vendor>> :> <<n_v>> )

Dirs == DOMAIN Listing

Files == UNION {{d \o <<Listing[d][i]>> : i \in DOMAIN Listing[d]} : d \in Dirs} \ Dirs

Nodes == Dirs \cup Files

RECURSIVE SplitFrom(_, _)
\* the segments of a path string; empty and "." segments denote the directory itself
SplitFrom(s, seg) ==
  IF s = <<>> THEN (IF seg \in {<<>>, <<".">>} THEN <<>> ELSE <<seg>>)
  ELSE IF Head(s) = Sep
       THEN (IF seg \in {<<>>, <<".">>} THEN <<>> ELSE <<seg>>) \o SplitFrom(Tail(s), <<>>)
       ELSE SplitFrom(Tail(s), seg \o <<Head(s)>>)

\* the node a path string names
Resolve(path) == SplitFrom(path, <<>>)

\* os.Stat(path) succeeds
Exists(path) == Resolve(path) \in Nodes

\* fs.DirEntry.Name()
Name(node) == IF node = <<>> THEN <<".">> ELSE node[Len(node)]

IsDir(node) == node \in Dirs

(***************************************************************************)
(* licensing: registry, detector, rewriter                                 *)
(***************************************************************************)
NL == "\n"
Verb == "%s"

\* licensing.Headers as loaded at process start
InitHeaders == [l \in {"ASL2"} |-> << <<"L", Verb>>, <<"N">> >>]

RECURSIVE Sprintf(_, _, _)
\* fmt.Sprintf(line, arg): the first verb takes the argument, a further one has none
Sprintf(line, arg, used) ==
  IF line = <<>> THEN <<>>
  ELSE IF Head(line) = Verb
       THEN <<IF used THEN "%!s(MISSING)" ELSE arg>> \o Sprintf(Tail(line), arg, TRUE)
       ELSE <<Head(line)>> \o Sprintf(Tail(line), arg, used)

RECURSIVE SplitLines(_, _)
\* bufio.Scanner over the file: the lines without their terminators
SplitLines(bytes, line) ==
  IF bytes = <<>> THEN (IF line = <<>> THEN <<>> ELSE <<line>>)
  ELSE IF Head(bytes) = NL THEN <<line>> \o SplitLines(Tail(bytes), <<>>)
       ELSE SplitLines(Tail(bytes), line \o <<Head(bytes)>>)

MatchAt(lines, headerLines, k) ==
  /\ Len(lines) >= k + Len(headerLines)
  /\ SubSeq(lines, k + 1, k + Len(headerLines)) = headerLines

\* licensing.ContainsHeader(f, headerLines)
ContainsHeader(bytes, headerLines) ==
  LET lines == SplitLines(bytes, <<>>)
  IN MatchAt(lines, headerLines, 0) \/ MatchAt(lines, headerLines, 1)

\* licensing.RewriteFileWithHeader(path, headerBytes): the new content
RewriteFileWithHeader(bytes, hb) == hb \o bytes

(***************************************************************************)
(* Exclusion                                                               *)
(***************************************************************************)
\* stringInSlice(a, list)
stringInSlice(a, list) == \E i \in DOMAIN list : list[i] = a

RECURSIVE cleanPathPrefixes(_, _)
\* cleanPathPrefixes(path, prefixes): strips the leading prefixes
cleanPathPrefixes(path, prefixes) ==
  IF \E i \in DOMAIN prefixes : prefixes[i] # <<>> /\ HasPrefix(path, prefixes[i])
  THEN LET i == CHOOSE j \in DOMAIN prefixes : prefixes[j] # <<>> /\ HasPrefix(path, prefixes[j])
       IN cleanPathPrefixes(SubSeq(path, Len(prefixes[i]) + 1, Len(path)), prefixes)
  ELSE path

\* needsExclusion(path, exclude)
needsExclusion(path, exclude) == \E i \in DOMAIN exclude : exclude[i] = path

(***************************************************************************)
(* addOrCheckLicense                                                       *)
(***************************************************************************)
NoFaults == [open |-> {}, rewrite |-> {}, readDir |-> {}]

\* addOrCheckLicense without the ContainsHeader test
addOrCheckLicenseNoDetect(path, node, ext, license, dry) ==
  LET quiet == [code |-> exitDefault, open |-> FALSE, report |-> FALSE, write |-> FALSE]
  IN IF IsDir(node) \/ Ext(path) # ext THEN quiet
     ELSE IF node \in faults.open
          THEN [quiet EXCEPT !.code = exitFailedToOpenWalkFile]
     ELSE IF dry
          THEN [code |-> exitSourceNeedsToBeRewritten, open |-> TRUE,
                report |-> TRUE, write |-> FALSE]
     ELSE IF node \in faults.rewrite
          THEN [code |-> errFailedRewrittingFile, open |-> TRUE,
                report |-> FALSE, write |-> FALSE]
     ELSE [code |-> exitDefault, open |-> TRUE, report |-> FALSE, write |-> TRUE]

\* what one call of addOrCheckLicense does: the error code it returns, whether
\* it opened the file, printed the report line, and rewrote the file
addOrCheckLicense(path, node, ext, license, dry) ==
  LET quiet == [code |-> exitDefault, open |-> FALSE, report |-> FALSE, write |-> FALSE]
  IN IF IsDir(node) \/ Ext(path) # ext THEN quiet
     ELSE IF node \in faults.open
          THEN [quiet EXCEPT !.code = exitFailedToOpenWalkFile]
     ELSE IF ContainsHeader(fs[node], Headers[license])
          THEN [quiet EXCEPT !.open = TRUE]
     ELSE IF dry
          THEN [code |-> exitSourceNeedsToBeRewritten, open |-> TRUE,
                report |-> TRUE, write |-> FALSE]
     ELSE IF node \in faults.rewrite
          THEN [code |-> errFailedRewrittingFile, open |-> TRUE,
                report |-> FALSE, write |-> FALSE]
     ELSE [code |-> exitDefault, open |-> TRUE, report |-> FALSE, write |-> TRUE]

(***************************************************************************)
(* walk                                                                    *)
(***************************************************************************)
\* the path walk hands to needsExclusion
currentPath(path, p) == cleanPathPrefixes(TrimLeft(path, p), <<<<Sep>>>>)

\* the callback returns filepath.SkipDir
skips(path, node, p, exclude) ==
  LET excludedDir == IsDir(node) /\ stringInSlice(Name(node), defaultExludedDirs)
  IN needsExclusion(currentPath(path, p), exclude) \/ excludedDir

RECURSIVE Norm(_)
\* WalkDir leaves a directory whose entries are exhausted
Norm(fr) ==
  IF fr # <<>> /\ fr[Len(fr)] = <<>> THEN Norm(SubSeq(fr, 1, Len(fr) - 1)) ELSE fr

\* the entries of a directory as WalkDir visits them
Children(path, node) ==
  [i \in DOMAIN Listing[node] |->
     [path |-> Join(path, Listing[node][i]), node |-> node \o <<Listing[node][i]>>]]

IsFatal(code) == code \notin {exitDefault, exitSourceNeedsToBeRewritten}

\* one call of walkDir: the callback on the next entry, then the listing of a
\* directory that was not skipped
walk ==
  /\ pc = "walking"
  /\ LET top == frames[Len(frames)]
         e == Head(top)
         below == SubSeq(frames, 1, Len(frames) - 1)
         after == below \o <<Tail(top)>>
         skip == skips(e.path, e.node, cfg.path, cfg.exclude)
         r == addOrCheckLicense(e.path, e.node, cfg.ext, cfg.license, cfg.dry)
         readErr == ~skip /\ IsDir(e.node) /\ e.node \in faults.readDir
         code == IF skip THEN exitDefault
                 ELSE IF readErr THEN exitFailedToWalkPath ELSE r.code
         next == IF skip THEN (IF IsDir(e.node) THEN Norm(after) ELSE Norm(below))
                 ELSE IF readErr THEN <<>>
                 ELSE IF IsDir(e.node) THEN Norm(after \o <<Children(e.path, e.node)>>)
                 ELSE Norm(after)
     IN /\ handed' = [path |-> e.path, node |-> e.node,
                      currentPath |-> currentPath(e.path, cfg.path)]
        /\ frames' = next
        /\ pc' = IF next = <<>> THEN "done" ELSE "walking"
        /\ err' = IF code # exitDefault THEN code ELSE err
        /\ failed' = IF IsFatal(code) THEN Append(failed, code) ELSE failed
        /\ enumerated' = IF ~skip /\ IsDir(e.node) THEN enumerated \cup {e.node}
                         ELSE enumerated
        /\ opened' = IF ~skip /\ r.open THEN opened \cup {e.node} ELSE opened
        /\ out' = IF ~skip /\ r.report THEN Append(out, e.path) ELSE out
        /\ rewritten' = IF ~skip /\ r.write THEN Append(rewritten, e.node) ELSE rewritten
        /\ fs' = IF ~skip /\ r.write
                 THEN [fs EXCEPT ![e.node] = RewriteFileWithHeader(fs[e.node], headerBytes)]
                 ELSE fs
  /\ UNCHANGED <<Headers, faults, runs, cfg, headerBytes, stats, fs0, repeat>>

(***************************************************************************)
(* run                                                                     *)
(***************************************************************************)
\* the header lines after the loop of run has substituted the licensor
materialize(header, licensor) ==
  [i \in DOMAIN header |->
     IF Verb \in Range(header[i]) THEN Sprintf(header[i], licensor, FALSE) ELSE header[i]]

\* licensing.Headers after run: header aliases the registry's slice
registryAfter(H, license, licensor) ==
  IF license \in DOMAIN H
  THEN [H EXCEPT ![license] = materialize(H[license], licensor)]
  ELSE H

\* the bytes run accumulates in headerBytes
bytesOf(lines) == Flatten([i \in DOMAIN lines |-> lines[i] \o <<NL>>])

\* run with os.Stat moved before the license lookup
preflightStatFirst(H, license, path) ==
  IF ~Exists(path) THEN [code |-> exitFailedToStatTree, stats |-> 1]
  ELSE IF license \notin DOMAIN H THEN [code |-> errUnknownLicense, stats |-> 1]
  ELSE [code |-> exitDefault, stats |-> 1]

\* the checks of run before walk: the code returned and the number of os.Stat calls
preflight(H, license, path) ==
  IF license \notin DOMAIN H THEN [code |-> errUnknownLicense, stats |-> 0]
  ELSE IF ~Exists(path) THEN [code |-> exitFailedToStatTree, stats |-> 1]
  ELSE [code |-> exitDefault, stats |-> 1]

Args == {<<>>, << <<"d", Sep>> >>, << <<"n">> >>}
Licenses == {defaultLicense, "MIT"}
Licensors == {defaultLicensor, "F"}
Excludes == {<<>>, <<n_a>>, <<n_dd>>, << <<"d", Sep, "d", "d">> >>}
Exts == {defaultExt}

run(args, license, licensor, exclude, ext, dry) ==
  /\ pc \in {"idle", "done"}
  /\ runs < MaxRuns
  /\ LET path == IF Len(args) > 0 THEN args[1] ELSE defaultPath
         pre == preflight(Headers, license, path)
         H == registryAfter(Headers, license, licensor)
     IN /\ runs' = runs + 1
        /\ cfg' = [license |-> license, licensor |-> licensor, exclude |-> exclude,
                   ext |-> ext, dry |-> dry, path |-> path]
        /\ repeat' = ( /\ pc = "done" /\ err = exitDefault /\ ~cfg.dry
                       /\ cfg.license = license /\ cfg.licensor = licensor
                       /\ cfg.exclude = exclude /\ cfg.ext = ext /\ cfg.path = path )
        /\ Headers' = H
        /\ headerBytes' = IF license \in DOMAIN H THEN bytesOf(H[license]) ELSE <<>>
        /\ stats' = pre.stats
        /\ err' = pre.code
        /\ IF pre.code = exitDefault
           THEN /\ pc' = "walking"
                /\ frames' = << <<[path |-> path, node |-> Resolve(path)]>> >>
           ELSE /\ pc' = "done"
                /\ frames' = <<>>
        /\ fs0' = fs
        /\ out' = <<>>
        /\ opened' = {}
        /\ rewritten' = <<>>
        /\ enumerated' = {}
        /\ failed' = <<>>
        /\ handed' = [path |-> <<>>, node |-> <<>>, currentPath |-> <<>>]
  /\ UNCHANGED <<fs, faults>>

Run ==
  \E args \in Args, license \in Licenses, licensor \in Licensors,
     exclude \in Excludes, ext \in Exts, dry \in BOOLEAN :
       run(args, license, licensor, exclude, ext, dry)

(***************************************************************************)
(* Initial states                                                          *)
(***************************************************************************)
Code == <<"x", NL>>
HeaderE == <<"L", "E", NL, "N", NL>>
Shebang == <<"#", "!", NL>>

Contents ==
  ( <<n_git, n_h>> :> {Code} ) @@
  ( <<n_a>> :> {Code, HeaderE \o Code} ) @@
  ( <<n_b>> :> {Code, HeaderE \o Code} ) @@
  ( <<n_m>> :> {Code} ) @@
  ( <<n_d, n_a>> :> {Code, Shebang \o HeaderE \o Code} ) @@
  ( <<n_d, n_dd, n_c>> :> {Code} ) @@
  ( <<n_d, n_vendor, n_v>> :> {Code} )

FaultConfigs ==
  { NoFaults,
    [NoFaults EXCEPT !.open = {<<n_a>>}],
    [NoFaults EXCEPT !.rewrite = {<<n_a>>}],
    [NoFaults EXCEPT !.readDir = {<<n_d>>}],
    [NoFaults EXCEPT !.open = {<<n_a>>}, !.rewrite = {<<n_b>>}] }

Init ==
  /\ Headers = InitHeaders
  /\ fs \in {f \in [Files -> UNION {Contents[x] : x \in Files}] :
               \A x \in Files : f[x] \in Contents[x]}
  /\ faults \in FaultConfigs
  /\ pc = "idle"
  /\ runs = 0
  /\ cfg = [license |-> defaultLicense, licensor |-> defaultLicensor, exclude |-> <<>>,
            ext |-> defaultExt, dry |-> FALSE, path |-> defaultPath]
  /\ headerBytes = <<>>
  /\ frames = <<>>
  /\ err = exitDefault
  /\ out = <<>>
  /\ opened = {}
  /\ rewritten = <<>>
  /\ enumerated = {}
  /\ stats = 0
  /\ handed = [path |-> <<>>, node |-> <<>>, currentPath |-> <<>>]
  /\ fs0 = fs
  /\ repeat = FALSE
  /\ failed = <<>>

Next == Run \/ walk

Spec == Init /\ [][Next]_vars

(***************************************************************************)
(* Vocabulary of the properties                                            *)
(***************************************************************************)
RootNode == Resolve(cfg.path)

IsPrefix(a, b) == Len(a) <= Len(b) /\ SubSeq(b, 1, Len(a)) = a

\* the nodes of the tree below the scan root, the root included
InTree(node) == IsPrefix(RootNode, node)

RECURSIVE JoinSegs(_)
JoinSegs(segs) ==
  IF segs = <<>> THEN <<>>
  ELSE IF Len(segs) = 1 THEN segs[1]
  ELSE segs[1] \o <<Sep>> \o JoinSegs(Tail(segs))

\* the path of a node relative to the scan root
RelPath(node) == JoinSegs(SubSeq(node, Len(RootNode) + 1, Len(node)))

Parent(node) == SubSeq(node, 1, Len(node) - 1)

ExplicitlyExcluded(node) == InTree(node) /\ stringInSlice(RelPath(node), cfg.exclude)

\* a directory the Exclusion Filter matches
ExcludedDir(d) ==
  /\ d \in Dirs /\ InTree(d)
  /\ (stringInSlice(Name(d), defaultExludedDirs) \/ ExplicitlyExcluded(d))

BeneathExcludedDir(f) ==
  \E d \in Dirs : ExcludedDir(d) /\ IsPrefix(d, f) /\ d # f

\* a file with the configured extension that no exclusion covers
Qualifying(f) ==
  /\ f \in Files /\ InTree(f)
  /\ Ext(Name(f)) = cfg.ext
  /\ ~ExplicitlyExcluded(f)
  /\ ~BeneathExcludedDir(f)

\* the Header Detector's verdict on the file as the run found it
Lacked(f) == ~ContainsHeader(fs0[f], Headers[cfg.license])

Reported == {Resolve(out[i]) : i \in DOMAIN out}

Rewrote == Range(rewritten)

Touched == opened \cup Reported \cup Rewrote

Times(seq, x) == Cardinality({i \in DOMAIN seq : seq[i] = x})

\* the run has returned and met no filesystem or configuration error
CleanRun == pc = "done" /\ err \in {exitDefault, exitSourceNeedsToBeRewritten} /\ failed = <<>>

NoTraversal ==
  /\ frames = <<>> /\ enumerated = {} /\ opened = {}
  /\ out = <<>> /\ rewritten = <<>> /\ fs = fs0

(***************************************************************************)
(* Properties                                                              *)
(***************************************************************************)
\* C1: no file beneath a directory matched by the Exclusion Filter (built-in
\* name or explicit -exclude entry) is opened, reported or rewritten, and no
\* such directory is listed, in dry-run or rewrite mode, at any depth.
C1_ExcludedNeverDescended ==
  pc # "idle" =>
    /\ \A f \in Touched : ~BeneathExcludedDir(f)
    /\ \A d \in enumerated : ~ExcludedDir(d) /\ ~BeneathExcludedDir(d)

\* C2: in a run without filesystem error, a visited qualifying file is rewritten
\* iff dry-run is off and the detector reported the header absent; a dry run
\* rewrites nothing; and a rewrite run has rewritten every qualifying file that
\* lacked the header by the time it returns.
C2_RewrittenIffAbsentAndNotDry ==
  CleanRun =>
    /\ \A f \in opened : (f \in Rewrote) <=> (~cfg.dry /\ Lacked(f))
    /\ cfg.dry => rewritten = <<>> /\ fs = fs0
    /\ ~cfg.dry => \A f \in Files : Qualifying(f) /\ Lacked(f) => f \in Rewrote

\* C3: once a fatal error has occurred during the walk, nothing more is
\* opened, reported or rewritten in that run.
C3_FatalStopsWalk ==
  [][(pc = "walking" /\ failed # <<>>) =>
       (opened' = opened /\ out' = out /\ rewritten' = rewritten /\ fs' = fs)]_vars

\* C4: a run in which a qualifying file could not be opened returns the
\* "open failed" kind.
C4_OpenFailureIsReturned ==
  (pc = "done" /\ exitFailedToOpenWalkFile \in Range(failed))
    => err = exitFailedToOpenWalkFile

\* C5: when an explicit exclusion matches a file, every other qualifying file of
\* the same directory is still checked, and reported or rewritten if it lacks
\* the header.
C5_ExcludedFileSkipsOnlyItself ==
  CleanRun =>
    \A g \in Files : \A f \in Files :
      (ExplicitlyExcluded(g) /\ f # g /\ Parent(f) = Parent(g) /\ Qualifying(f))
        => /\ f \in opened
           /\ Lacked(f) => IF cfg.dry THEN f \in Reported ELSE f \in Rewrote

\* C6: a dry run without filesystem error reports every qualifying file that
\* lacks the header exactly once, and returns the violation status iff there is
\* such a file, success otherwise.
C6_DryRunReportsAll ==
  (CleanRun /\ cfg.dry) =>
    /\ \A f \in Files : (Qualifying(f) /\ Lacked(f))
         => Cardinality({i \in DOMAIN out : Resolve(out[i]) = f}) = 1
    /\ err = (IF \E f \in Files : Qualifying(f) /\ Lacked(f)
              THEN exitSourceNeedsToBeRewritten ELSE exitDefault)

\* C7: a run with an unknown license returns the unknown-license failure
\* without any os.Stat; a run whose root cannot be stat'ed returns the
\* cannot-stat-tree failure; in both cases nothing is listed, opened, reported
\* or rewritten.
C7_FailFastBeforeTraversal ==
  runs > 0 =>
    /\ cfg.license \notin DOMAIN InitHeaders
         => pc = "done" /\ err = errUnknownLicense /\ stats = 0 /\ NoTraversal
    /\ (cfg.license \in DOMAIN InitHeaders /\ ~Exists(cfg.path))
         => pc = "done" /\ err = exitFailedToStatTree /\ NoTraversal
    /\ err \in {errUnknownLicense, exitFailedToStatTree} => NoTraversal

C7_Witness ==
  /\ pc = "done" /\ err = errUnknownLicense /\ stats = 0
  /\ Exists(cfg.path)
  /\ \E f \in Files : Qualifying(f) /\ fs[f] = Code

\* C8: no call of run modifies a registry template, every run materializes its
\* header from the original template and its own licensor, and the lines given
\* to the detector are the lines of the bytes that get inserted.
C8_RegistryReadOnly ==
  /\ Headers = InitHeaders
  /\ (pc # "idle" /\ cfg.license \in DOMAIN InitHeaders)
       => /\ headerBytes = bytesOf(materialize(InitHeaders[cfg.license], cfg.licensor))
          /\ SplitLines(headerBytes, <<>>) = materialize(Headers[cfg.license], cfg.licensor)

\* C9: every file a rewrite run rewrote holds the run's header followed by its
\* original content and is reported present by the detector; a run that
\* repeats the arguments of a rewrite run that returned without error rewrites
\* nothing, reports nothing, returns success and leaves every file as it was.
C9_RewriteIdempotent ==
  /\ \A f \in Rewrote :
       /\ fs[f] = headerBytes \o fs0[f]
       /\ ContainsHeader(fs[f], Headers[cfg.license])
  /\ repeat => err = exitDefault /\ out = <<>> /\ rewritten = <<>> /\ fs = fs0

C9_Witness ==
  /\ repeat /\ pc = "done"
  /\ \E f \in opened :
       /\ fs[f] \notin Contents[f]
       /\ HasPrefix(fs[f], headerBytes)
       /\ SubSeq(fs[f], Len(headerBytes) + 1, Len(fs[f])) \in Contents[f]

\* C10: the path walk hands to the explicit-exclusion check is the entry's path
\* relative to the scan root.
C10_CurrentPathIsRelative ==
  (pc # "idle" /\ handed.path # <<>>) => handed.currentPath = RelPath(handed.node)

====
